---------------------------- MODULE Spec2Model ----------------------------
(***************************************************************************)
(* Model of the HB threshold analyzer of calclean (tools/hbanalyzer.cpp):  *)
(* the collected hits, the occupancy histogram, the uniformity test, the   *)
(* greedy outlier pruning loop and the per-band threshold computation     *)
(* with its bracketing root finder, and of the reader of the configuration *)
(* file of the variant that takes the number of hot cells per eta bin.     *)
(*                                                                         *)
(* Real numbers are kept in fixed point: energies in units of 0.001, eta   *)
(* in units of 0.001, phi in units of a tenth of a histogram cell.         *)
(* P-values are kept in units of 0.0001 (see Prob).                        *)
(***************************************************************************)
EXTENDS Integers, Sequences, FiniteSets, Bags, TLC

(***************************************************************************)
(* Sizes.  The program has 34 eta bins and 72 phi cells; the model keeps   *)
(* the code's formulas and checks them on a smaller detector.              *)
(***************************************************************************)
ETA_DIVS == 2

PHI_DIVS == 4

\* How many entries past PHI_DIVS the ignore list may grow before the model
\* stops following a pruning loop that no longer terminates.
Overrun == 0

\* Upper end of the energy interval searched by the root finder (fixed point).
EMAX == 20

\* Width of an eta bin, 0.085, in units of 0.001.
EtaBinWidth == 85

\* Width of a phi cell in model units; the histogram spans PHI_DIVS cells
\* centred on zero, as TH1D(PHI_DIVS, -pi, pi) does.
PhiCellWidth == 10

\* The quiet NaN produced by 0/0 in the chi-square computation.
NaN == -1

\* P-value scale: 10000 stands for probability 1.
ProbOne == 10000

Bands == (-(ETA_DIVS \div 2)) .. ((ETA_DIVS \div 2) - 1)

Channels == 1 .. PHI_DIVS

MaxIgnore == PHI_DIVS + Overrun

(***************************************************************************)
(* Collected hits (struct hit): eta, phi, hadenergy.                       *)
(***************************************************************************)
Hit(eta, phi, e) == [eta |-> eta, phi |-> phi, hadenergy |-> e]

PhiMin == -((PHI_DIVS * PhiCellWidth) \div 2)

PhiMax == PhiMin + PHI_DIVS * PhiCellWidth

\* Energies of the hits of the input families: noise and signal, then a
\* deposit at the upper end of the searched interval and one far above it.
HitEnergies == <<12, 21, 20, 31>>

HitLow == HitEnergies[1]

HitHigh == HitEnergies[2]

HitEdge == HitEnergies[3]

HitFar == HitEnergies[4]

\* The eta of the towers of band ieta used by the input families.
EtaOf(b) == b * EtaBinWidth + 40

\* A bag with n copies of hit h.
Copies(h, n) == IF n > 0 THEN [x \in {h} |-> n] ELSE EmptyBag

RECURSIVE SumBags(_, _)
SumBags(f, S) ==
  IF S = {} THEN EmptyBag
  ELSE LET x == CHOOSE y \in S : TRUE
       IN  f[x] (+) SumBags(f, S \ {x})

\* Input family: in band 0, cell c holds noise[c] hits of energy HitLow on
\* the lower edge of the cell and signal hits of energy HitHigh in its
\* middle; band -1 holds other[c] hits of energy HitHigh in its cell c.
HitsOf(noise, signal, other) ==
  SumBags([c \in Channels |->
              Copies(Hit(EtaOf(0), PhiMin + (c - 1) * PhiCellWidth, HitLow), noise[c])
              (+) Copies(Hit(EtaOf(0), PhiMin + (c - 1) * PhiCellWidth + 5, HitHigh), signal)],
           Channels)
  (+) SumBags([c \in 1 .. Len(other) |->
                 Copies(Hit(EtaOf(-1), PhiMin + (c - 1) * PhiCellWidth, HitHigh), other[c])],
              1 .. Len(other))

\* counts[c] hits of energy e in every cell c of the band.
Deposit(band, counts, e) ==
  SumBags([c \in Channels |->
              Copies(Hit(EtaOf(band), PhiMin + (c - 1) * PhiCellWidth, e), counts[c])],
           Channels)

Flat(n) == [c \in Channels |-> n]

Spike(k, n) == [c \in Channels |-> IF c = k THEN n ELSE 0]

Hole(k, n) == [c \in Channels |-> IF c = k THEN 0 ELSE n]

\* Input family of the threshold search, per band: 1 uniform at every
\* cutoff; 2 one hot cell of low energy on a uniform signal; 3 one hot cell
\* whose hits lie at the upper end of the searched interval, on a large
\* uniform signal just above it and a few hits far above; 4 nothing but a
\* few hits far above the interval in one cell; 5 a uniform signal with one
\* dead cell.
NumProfiles == 5

Profile(band, i) ==
  CASE i = 1 -> Deposit(band, Flat(9), HitLow) (+) Deposit(band, Flat(9), HitHigh)
    [] i = 2 -> Deposit(band, Spike(2, 30), HitLow) (+) Deposit(band, Flat(9), HitHigh)
    [] i = 3 -> Deposit(band, Spike(1, 30), HitEdge) (+) Deposit(band, Flat(30), HitHigh)
                (+) Deposit(band, Spike(PHI_DIVS, 9), HitFar)
    [] i = 4 -> Deposit(band, Spike(3, 9), HitFar)
    [] OTHER -> Deposit(band, Hole(1, 9), HitHigh)

(***************************************************************************)
(* make_histogram: a TH1D with PHI_DIVS cells over [-pi, pi); bin 0 is the *)
(* underflow and bin PHI_DIVS + 1 the overflow bin.                        *)
(***************************************************************************)
\* TH1::Fill's bin for a value of phi.
FindBin(phi) ==
  IF phi < PhiMin THEN 0
  ELSE IF phi >= PhiMax THEN PHI_DIVS + 1
  ELSE ((phi - PhiMin) \div PhiCellWidth) + 1

\* std::floor(eta / 0.085)
EtaBin(eta) == eta \div EtaBinWidth

\* Variant: a hit whose energy equals the cutoff is filled too.
SelectedGe(h, band, cutoff) == h.hadenergy >= cutoff /\ band = EtaBin(h.eta)

\* Variant: the hits of every band are filled.
SelectedAnyBand(h, band, cutoff) == h.hadenergy > cutoff

\* The condition under which make_histogram fills a hit.
Selected(h, band, cutoff) == h.hadenergy > cutoff /\ band = EtaBin(h.eta)

EmptyHistogram == [i \in 0 .. (PHI_DIVS + 1) |-> 0]

\* The loop of make_histogram over the hits of S (with multiplicities in B).
RECURSIVE FillAll(_, _, _, _, _)
FillAll(h, B, S, band, cutoff) ==
  IF S = {} THEN h
  ELSE LET x == CHOOSE y \in S : TRUE
           b == FindBin(x.phi)
           g == IF Selected(x, band, cutoff)
                THEN [h EXCEPT ![b] = @ + B[x]]
                ELSE h
       IN  FillAll(g, B, S \ {x}, band, cutoff)

make_histogram(B, band, cutoff) ==
  FillAll(EmptyHistogram, B, BagToSet(B), band, cutoff)

(***************************************************************************)
(* TMath::Prob(chi2, ndf), the upper tail of the chi-square distribution.  *)
(* chi2 is the fraction num/den (den > 0) or NaN.  The result is kept on   *)
(* the scale of ProbOne and only as exact as the two significance levels   *)
(* of the model need: 0.01 (100) and 0.05 (500).                           *)
(***************************************************************************)
PValues == {100, 500}

\* 1000 times the chi-square value whose upper tail is p, per ndf.
Quantile(p, ndf) ==
  IF p = 100
  THEN <<6635, 9210, 11345, 13277, 15086, 16812, 18475>>[ndf]
  ELSE <<3841, 5991, 7815, 9488, 11070, 12592, 14067>>[ndf]

Prob(num, den, isnan, ndf) ==
  IF ndf <= 0 THEN 0
  ELSE IF isnan THEN NaN
  ELSE IF num <= 0 THEN (IF num < 0 THEN 0 ELSE ProbOne)
  ELSE IF 1000 * num > Quantile(100, ndf) * den THEN 50
  ELSE IF 1000 * num > Quantile(500, ndf) * den THEN 250
  ELSE 5000

\* a < b on doubles: false when either side is NaN.
Less(a, b) == a # NaN /\ b # NaN /\ a < b

(***************************************************************************)
(* stats::stats(hits, ignore).  garbage is the value the uninitialised     *)
(* member maxphi holds when the loop never assigns it.                     *)
(***************************************************************************)
Garbage == {0, 1}

\* Variant: no cell is ever found in the ignore list.
IgnoredNever(ignore, i) == FALSE

Ignored(ignore, i) == \E k \in 1 .. Len(ignore) : ignore[k] = i

\* Variant: the last of the cells with the largest content wins.
RECURSIVE ScanLastWins(_, _, _, _)
ScanLastWins(h, ignore, i, acc) ==
  IF i > PHI_DIVS THEN acc
  ELSE LET content == h[i]
           nxt == IF ~Ignored(ignore, i) /\ content > 0
                  THEN [max    |-> IF content >= acc.max THEN content ELSE acc.max,
                        sum    |-> acc.sum + content,
                        sumsq  |-> acc.sumsq + content * content,
                        maxphi |-> IF content >= acc.max THEN i ELSE acc.maxphi]
                  ELSE acc
       IN  ScanLastWins(h, ignore, i + 1, nxt)

\* Variant: ignored cells still enter the sums.
RECURSIVE ScanCountsIgnored(_, _, _, _)
ScanCountsIgnored(h, ignore, i, acc) ==
  IF i > PHI_DIVS THEN acc
  ELSE LET content == h[i]
           seen == ~Ignored(ignore, i)
           nxt == IF content > 0
                  THEN [max    |-> IF seen /\ content > acc.max THEN content ELSE acc.max,
                        sum    |-> acc.sum + content,
                        sumsq  |-> acc.sumsq + content * content,
                        maxphi |-> IF seen /\ content > acc.max THEN i ELSE acc.maxphi]
                  ELSE acc
       IN  ScanCountsIgnored(h, ignore, i + 1, nxt)

\* The loop over the bins i .. PHI_DIVS; acc is [max, sum, sumsq, maxphi].
RECURSIVE Scan(_, _, _, _)
Scan(h, ignore, i, acc) ==
  IF i > PHI_DIVS THEN acc
  ELSE LET content == h[i]
           nxt == IF ~Ignored(ignore, i) /\ content > 0
                  THEN [max    |-> IF content > acc.max THEN content ELSE acc.max,
                        sum    |-> acc.sum + content,
                        sumsq  |-> acc.sumsq + content * content,
                        maxphi |-> IF content > acc.max THEN i ELSE acc.maxphi]
                  ELSE acc
       IN  Scan(h, ignore, i + 1, nxt)

\* Variant: one cell too many is taken as good.
NumGoodOffByOne(ignore) == PHI_DIVS - Len(ignore) + 1

\* int numgood = PHI_DIVS - ignore.size()
NumGood(ignore) == PHI_DIVS - Len(ignore)

\* Variant: the loop never assigns maxphi.
StatsStaleMaxphi(h, ignore, garbage) ==
  LET acc     == Scan(h, ignore, 1, [max |-> 0, sum |-> 0, sumsq |-> 0, maxphi |-> garbage])
      numgood == NumGood(ignore)
  IN  [pvalue |-> Prob(numgood * acc.sumsq - acc.sum * acc.sum, acc.sum,
                       acc.sum = 0, numgood - 1),
       maxphi |-> garbage]

\* A double that holds a quotient of integers, kept as the fraction.
Ratio(num, den) == [num |-> num, den |-> den]

\* double mean = sum / numgood
Mean(sum, numgood) == Ratio(sum, numgood)

\* Variant: the mean is subtracted once, not once per good cell.
Chi2Unscaled(sumsq, mean, numgood) ==
  Ratio(sumsq * mean.den * mean.den - mean.num * mean.num,
        mean.num * mean.den)

\* double chi2 = sumsq / mean - numgood * mean: the difference of the
\* fractions sumsq * den / num and numgood * num / den; 0/0 when sum = 0.
Chi2(sumsq, mean, numgood) ==
  Ratio(sumsq * mean.den * mean.den - numgood * mean.num * mean.num,
        mean.num * mean.den)

Stats(h, ignore, garbage) ==
  LET acc     == Scan(h, ignore, 1, [max |-> 0, sum |-> 0, sumsq |-> 0, maxphi |-> garbage])
      numgood == NumGood(ignore)
      chi2    == Chi2(acc.sumsq, Mean(acc.sum, numgood), numgood)
  IN  [pvalue |-> Prob(chi2.num, chi2.den, acc.sum = 0, numgood - 1),
       maxphi |-> acc.maxphi]

(***************************************************************************)
(* results::results: the rounded threshold and the output convention.      *)
(***************************************************************************)
\* Lower end of the energy interval searched by the root finder.
EMIN == 0

\* The 1e-3 added to the root before rounding, in units of 0.001.
Epsilon == 1

\* One step of the two-decimal grid, 0.01, in units of 0.001.
Step == 10

\* Variant: the quotient is rounded down.
FloorDiv(x, d) == x \div d

\* std::ceil(x / d) for d > 0
CeilDiv(x, d) == -((-x) \div d)

\* Variant: one step more than the rounding asks for.
RoundUpTwice(r) == CeilDiv(r + Epsilon, Step) * Step + Step

\* std::ceil((root + 1e-3) * 100) / 100
RoundUp(r) == CeilDiv(r + Epsilon, Step) * Step

\* Variant: the shift is applied to the first entry only.
ShiftFirstOnly(ignored) ==
  [k \in 1 .. Len(ignored) |->
     IF k = 1 THEN ignored[k] - (PHI_DIVS \div 2) ELSE ignored[k]]

\* ignored[i] -= PHI_DIVS / 2, for every i
Shift(ignored) == [k \in 1 .. Len(ignored) |-> ignored[k] - (PHI_DIVS \div 2)]

\* Variant: the step function alone, without the energy term.
CostPlateau(ignored, numhot, e) == 1000 * (ignored - numhot)

\* ignored - numhot + (ignored > numhot ? energy : -energy), in units of 0.001
Cost(ignored, numhot, e) ==
  1000 * (ignored - numhot) + (IF ignored > numhot THEN e ELSE -e)

(***************************************************************************)
(* State.                                                                  *)
(***************************************************************************)
VARIABLES
  all,       \* hit::all, the collected hits, as a bag
  cost,      \* the cost_function: ieta, pvalue, numhot
  pc,        \* where the program is
  caller,    \* who called getignored: "cost", "results" or "test"
  energy,    \* the energy getignored was called with
  hits,      \* the histogram of getignored
  ignore,    \* the ignore list of getignored
  s,         \* the stats of getignored
  ret,       \* the value getignored returned
  root,      \* rootfinder.Root()
  fx,        \* the last evaluation of the cost function by the root finder
  energies,  \* results::_energies
  hotcells,  \* results::_hotcells
  memo,      \* the first call observed by the test driver and what it returned
  conf,      \* the config: pvalue and numhot per eta bin
  bracket,   \* the root finder: the points that bracket the root, the iterations
  out,       \* what main printed on the standard output
  err,       \* the error message printed before exit
  input,     \* the lines of the configuration file
  linenb,    \* config::config: the number of the line to read next
  env,       \* what main finds: its arguments, the two files, the tree
  towers,    \* the towers of the entry the towerset holds
  it,        \* a towerset::iterator: its index and its filter
  log,       \* what the iteration did: towers handed out, towers read
  goodhb,    \* the parameters of a goodhb_filter
  verdict    \* the last tower given to the goodhb_filter and its answer

vars == <<all, cost, pc, caller, energy, hits, ignore, s, ret, root, fx,
          energies, hotcells, memo, conf, bracket, out, err, input, linenb,
          env, towers, it, log, goodhb, verdict>>

\* The towerset, its iterator and the filter built from the results.
library == <<towers, it, log, goodhb, verdict>>

\* What the computation of the results never touches.
startup == <<conf, input, linenb, env, library>>

\* What getignored never touches.
outside == <<conf, bracket, out, err, input, linenb, env, library>>

NoStats == [pvalue |-> 0, maxphi |-> 0]

\* The indices of the arrays with one entry per eta bin.
EtaIndex == 0 .. (ETA_DIVS - 1)

\* class config: the target p-value and the array of the target numbers of
\* hot cells (one number for all bins when given on the command line).
Config(pvalue, numhot) == [pvalue |-> pvalue, numhot |-> numhot]

\* config::numhot(ieta)
NumHot(c, ieta) == c.numhot[ieta + (ETA_DIVS \div 2)]

\* The root finder before Solve is called.
NoBracket == [pts |-> <<>>, iter |-> 0]

\* What main finds when nothing is wrong: both arguments, a configuration
\* file and a data file that open, a tree with all its branches.
FairEnv == [argc |-> 3, config |-> TRUE, data |-> TRUE, tree |-> "ok"]

\* An iterator that was not set.
NoIterator == [i |-> 0, filter |-> <<>>]

\* Nothing was iterated yet: no tower handed to the loop body, no tower
\* read, no operator applied.
NoLog == [visited |-> <<>>, read |-> <<>>, trail |-> <<>>]

\* The state of the program at position start, with the hits B, the config
\* c, the configuration file, the surroundings e and the towers of the entry.
Placed(B, c, start, file, e, entry) ==
  /\ all = B
  /\ conf = c
  /\ cost = [ieta |-> -(ETA_DIVS \div 2), pvalue |-> c.pvalue,
             numhot |-> NumHot(c, -(ETA_DIVS \div 2))]
  /\ pc = start
  /\ caller = "none"
  /\ energy = 0
  /\ hits = EmptyHistogram
  /\ ignore = <<>>
  /\ s = NoStats
  /\ ret = <<>>
  /\ root = 0
  /\ fx = <<>>
  /\ energies = [b \in Bands |-> 0]
  /\ hotcells = [b \in Bands |-> <<>>]
  /\ memo = <<>>
  /\ bracket = NoBracket
  /\ out = <<>>
  /\ err = <<>>
  /\ input = file
  /\ linenb = 1
  /\ env = e
  /\ towers = entry
  /\ it = NoIterator
  /\ log = NoLog
  /\ goodhb = <<>>
  /\ verdict = <<>>

\* The state of main at position start, before any entry is read.
Entered(B, c, start, file, e) == Placed(B, c, start, file, e, <<>>)

Started(B, c, start, file) == Entered(B, c, start, file, FairEnv)

\* The state once the hits B are loaded and the config c is known, before
\* anything is computed.
LoadedWith(B, c, start) == Started(B, c, start, <<>>)

Loaded(B, pvalue, numhot, start) ==
  LoadedWith(B, Config(pvalue, [i \in EtaIndex |-> numhot]), start)

(***************************************************************************)
(* cost_function::getignored                                               *)
(***************************************************************************)
\* Lines 250-253: the histogram and the first test.
Enter(band, e, who) ==
  /\ energy' = e
  /\ caller' = who
  /\ hits' = make_histogram(all, band, e)
  /\ ignore' = <<>>
  /\ \E g \in Garbage : s' = Stats(hits', <<>>, g)
  /\ pc' = "loop"

\* Lines 255-258: one turn of the loop.
LoopPush ==
  /\ pc = "loop"
  /\ Less(s.pvalue, cost.pvalue)
  /\ Len(ignore) < MaxIgnore
  /\ ignore' = Append(ignore, s.maxphi)
  /\ \E g \in Garbage : s' = Stats(hits, ignore', g)
  /\ UNCHANGED <<all, cost, pc, caller, energy, hits, ret, root, fx,
                 energies, hotcells, memo>>
  /\ UNCHANGED outside

\* Lines 255, 260-262: the loop ends, the histogram is deleted, ignore is returned.
LoopExit ==
  /\ pc = "loop"
  /\ ~Less(s.pvalue, cost.pvalue)
  /\ ret' = ignore
  /\ pc' = "ret"
  /\ hits' = EmptyHistogram
  /\ ignore' = <<>>
  /\ s' = NoStats
  /\ UNCHANGED <<all, cost, caller, energy, root, fx, energies, hotcells, memo>>
  /\ UNCHANGED outside

(***************************************************************************)
(* A driver that calls getignored with any band and energy, again and      *)
(* again, and remembers the first call it saw return.                      *)
(***************************************************************************)
TestEnergies == {EMIN, HitLow, HitHigh}

TestCall ==
  /\ pc = "idle"
  /\ \E band \in Bands, e \in TestEnergies :
       /\ cost' = [cost EXCEPT !.ieta = band]
       /\ Enter(band, e, "test")
  /\ UNCHANGED <<all, ret, root, fx, energies, hotcells, memo>>
  /\ UNCHANGED outside

TestObserve ==
  /\ pc = "ret"
  /\ caller = "test"
  /\ memo' = IF memo = <<>>
             THEN <<[ieta |-> cost.ieta, energy |-> energy, ret |-> ret]>>
             ELSE memo
  /\ pc' = "idle"
  /\ UNCHANGED <<all, cost, caller, energy, hits, ignore, s, ret, root, fx,
                 energies, hotcells>>
  /\ UNCHANGED outside

(***************************************************************************)
(* results::results, lines 182-202.  The root finder is modelled by its    *)
(* interface: it evaluates the cost function at energies of its choice in  *)
(* [EMIN, EMAX], and then either fails or reports a root in [EMIN, EMAX].  *)
(***************************************************************************)
TrialEnergies == {EMIN, HitLow, EMAX}

\* The roots the root finder may report: those next to a multiple of 0.01,
\* where the rounding is decided, and the two ends of the interval.
Roots ==
  {r \in EMIN .. EMAX :
     r \in {EMIN, EMAX} \/ r % Step \in {0, Step - Epsilon}}

\* The root finder evaluates cost(e): cost_function::operator() calls getignored.
SolveTrial ==
  /\ pc = "solve"
  /\ \E e \in TrialEnergies : Enter(cost.ieta, e, "cost")
  /\ UNCHANGED <<all, cost, ret, root, fx, energies, hotcells, memo>>
  /\ UNCHANGED outside

\* Lines 267-268: the value of the cost function goes back to the root finder.
CostReturn ==
  /\ pc = "ret"
  /\ caller = "cost"
  /\ fx' = <<[energy |-> energy, ignored |-> Len(ret),
              value |-> Cost(Len(ret), cost.numhot, energy)]>>
  /\ pc' = "solve"
  /\ UNCHANGED <<all, cost, caller, energy, hits, ignore, s, ret, root,
                 energies, hotcells, memo>>
  /\ UNCHANGED outside

\* Lines 189-192: status != 1.
SolveFail ==
  /\ pc = "solve"
  /\ pc' = "exit2"
  /\ err' = <<[ieta |-> cost.ieta]>>
  /\ UNCHANGED <<all, cost, caller, energy, hits, ignore, s, ret, root, fx,
                 energies, hotcells, memo, bracket, out>>
  /\ UNCHANGED startup

\* Lines 188, 193, 195: status == 1, the threshold is rounded and the hot
\* cells are computed at the rounded threshold.
SolveRoot ==
  /\ pc = "solve"
  /\ \E r \in Roots :
       /\ root' = r
       /\ Enter(cost.ieta, RoundUp(r), "results")
  /\ fx' = <<>>
  /\ UNCHANGED <<all, cost, ret, energies, hotcells, memo>>
  /\ UNCHANGED outside

\* Lines 196-202: the results of the band are stored; the next band follows.
ResultsStore ==
  /\ pc = "ret"
  /\ caller = "results"
  /\ energies' = [energies EXCEPT ![cost.ieta] = energy]
  /\ hotcells' = [hotcells EXCEPT ![cost.ieta] = Shift(ret)]
  /\ cost' = IF cost.ieta + 1 < ETA_DIVS \div 2
             THEN [cost EXCEPT !.ieta = @ + 1, !.numhot = NumHot(conf, cost.ieta + 1)]
             ELSE [cost EXCEPT !.ieta = @ + 1]
  /\ pc' = IF cost.ieta + 1 < ETA_DIVS \div 2 THEN "solve" ELSE "done"
  /\ root' = 0
  /\ UNCHANGED <<all, caller, energy, hits, ignore, s, ret, fx, memo,
                 bracket, out, err>>
  /\ UNCHANGED startup

(***************************************************************************)
(* rootfinder.Solve(cost, 0, 10, 500, 1e-4, 1e-4) with the Brent method of *)
(* GSL: a bracketing root finder.  It evaluates the function at both ends  *)
(* of the interval and fails when the values have the same strict sign;    *)
(* then every iteration evaluates the function at a point inside the       *)
(* bracket and keeps the part of the bracket over which the sign changes,  *)
(* until the bracket is narrower than the tolerance or the iteration       *)
(* budget is spent.  Which inner point an iteration takes is left open.    *)
(* The root is kept rounded up to the unit of the model.                   *)
(***************************************************************************)
\* The iteration budget of Solve (500 in the program).
MaxIter == 3

\* The width below which the bracket is accepted: 1e-4 + 1e-4 |x| is less
\* than one unit of the model (0.001) for |x| < 9.
Tolerance == 1

\* Variant: a value of zero at an end point is taken as not straddling.
SameSignOrZero(flo, fhi) == (flo <= 0 /\ fhi <= 0) \/ (flo >= 0 /\ fhi >= 0)

\* GSL brent_init: "endpoints do not straddle y=0".
SameSign(flo, fhi) == (flo < 0 /\ fhi < 0) \/ (flo > 0 /\ fhi > 0)

\* The energies next to which the histogram changes, and so the cost.
ProbePoints ==
  {HitEnergies[k] : k \in 1 .. Len(HitEnergies)}
  \cup {HitEnergies[k] - 1 : k \in 1 .. Len(HitEnergies)}

\* The inner points an iteration may evaluate.
Probes(lo, hi) ==
  {x \in (lo + 1) .. (hi - 1) : x = (lo + hi) \div 2 \/ x \in ProbePoints}

\* The bracket after the function was evaluated at x with value f.
Absorb(b, x, f) ==
  IF Len(b.pts) < 2
  THEN [b EXCEPT !.pts = Append(@, [x |-> x, f |-> f])]
  ELSE [pts  |-> IF f = 0 THEN <<[x |-> x, f |-> f], [x |-> x, f |-> f]>>
                 ELSE IF SameSign(f, b.pts[1].f)
                 THEN <<[x |-> x, f |-> f], b.pts[2]>>
                 ELSE <<b.pts[1], [x |-> x, f |-> f]>>,
        iter |-> b.iter + 1]

\* The bracket is set and straddles zero.
Bracketed ==
  /\ Len(bracket.pts) = 2
  /\ ~SameSign(bracket.pts[1].f, bracket.pts[2].f)

\* The bracket holds a zero of the function or is narrow enough.
Converged ==
  \/ bracket.pts[1].f = 0
  \/ bracket.pts[2].f = 0
  \/ bracket.pts[2].x - bracket.pts[1].x <= Tolerance

\* The roots Solve may report for the bracket: a point where the function
\* is zero or, rounded up to the model's unit, a point of the final bracket.
BracketRoots ==
  IF bracket.pts[1].f = 0 THEN {bracket.pts[1].x}
  ELSE IF bracket.pts[2].f = 0 THEN {bracket.pts[2].x}
  ELSE {r \in {bracket.pts[2].x, bracket.pts[2].x + Tolerance} : r <= EMAX}

\* SetFunction: the function is evaluated at the lower, then the upper end.
BrentSet ==
  /\ pc = "solve"
  /\ Len(bracket.pts) < 2
  /\ Enter(cost.ieta, IF Len(bracket.pts) = 0 THEN EMIN ELSE EMAX, "cost")
  /\ UNCHANGED <<all, cost, ret, root, fx, energies, hotcells, memo>>
  /\ UNCHANGED outside

\* Lines 267-268: the value of the cost function goes back to the root
\* finder, which updates its bracket.
BrentEval ==
  /\ pc = "ret"
  /\ caller = "cost"
  /\ fx' = <<[energy |-> energy, ignored |-> Len(ret),
              value |-> Cost(Len(ret), cost.numhot, energy)]>>
  /\ bracket' = Absorb(bracket, energy, Cost(Len(ret), cost.numhot, energy))
  /\ pc' = "solve"
  /\ UNCHANGED <<all, cost, caller, energy, hits, ignore, s, ret, root,
                 energies, hotcells, memo, out, err>>
  /\ UNCHANGED startup

\* Variant: the band is given up and the loop goes on with the next band.
BrentInvalidSkip ==
  /\ pc = "solve"
  /\ Len(bracket.pts) = 2
  /\ SameSign(bracket.pts[1].f, bracket.pts[2].f)
  /\ cost' = IF cost.ieta + 1 < ETA_DIVS \div 2
             THEN [cost EXCEPT !.ieta = @ + 1, !.numhot = NumHot(conf, cost.ieta + 1)]
             ELSE [cost EXCEPT !.ieta = @ + 1]
  /\ pc' = IF cost.ieta + 1 < ETA_DIVS \div 2 THEN "solve" ELSE "done"
  /\ bracket' = NoBracket
  /\ UNCHANGED <<all, caller, energy, hits, ignore, s, ret, root, fx,
                 energies, hotcells, memo, out, err>>
  /\ UNCHANGED startup

\* Lines 189-192: Solve returned false because the interval is not valid.
BrentInvalid ==
  /\ pc = "solve"
  /\ Len(bracket.pts) = 2
  /\ SameSign(bracket.pts[1].f, bracket.pts[2].f)
  /\ pc' = "exit2"
  /\ err' = <<[ieta |-> cost.ieta]>>
  /\ UNCHANGED <<all, cost, caller, energy, hits, ignore, s, ret, root, fx,
                 energies, hotcells, memo, bracket, out>>
  /\ UNCHANGED startup

\* One iteration: the function is evaluated at a point inside the bracket.
BrentIterate ==
  /\ pc = "solve"
  /\ Bracketed
  /\ ~Converged
  /\ bracket.iter < MaxIter
  /\ \E x \in Probes(bracket.pts[1].x, bracket.pts[2].x) :
       Enter(cost.ieta, x, "cost")
  /\ UNCHANGED <<all, cost, ret, root, fx, energies, hotcells, memo>>
  /\ UNCHANGED outside

\* Lines 189-192: Solve returned false because the budget is spent.
BrentGiveUp ==
  /\ pc = "solve"
  /\ Bracketed
  /\ ~Converged
  /\ bracket.iter >= MaxIter
  /\ pc' = "exit2"
  /\ err' = <<[ieta |-> cost.ieta]>>
  /\ UNCHANGED <<all, cost, caller, energy, hits, ignore, s, ret, root, fx,
                 energies, hotcells, memo, bracket, out>>
  /\ UNCHANGED startup

\* Lines 188, 193, 195: Solve returned true, the threshold is rounded and
\* the hot cells are computed at the rounded threshold.
BrentRoot ==
  /\ pc = "solve"
  /\ Bracketed
  /\ Converged
  /\ \E r \in BracketRoots :
       /\ root' = r
       /\ Enter(cost.ieta, RoundUp(r), "results")
  /\ fx' = <<>>
  /\ bracket' = NoBracket
  /\ UNCHANGED <<all, cost, ret, energies, hotcells, memo, out, err>>
  /\ UNCHANGED startup

\* main, lines 103-114: the results are printed, one record per eta bin.
PrintResults ==
  /\ pc = "done"
  /\ out' = [k \in 1 .. (2 * (ETA_DIVS \div 2)) |->
               [ieta     |-> k - 1 - (ETA_DIVS \div 2),
                energy   |-> energies[k - 1 - (ETA_DIVS \div 2)],
                hotcells |-> hotcells[k - 1 - (ETA_DIVS \div 2)]]]
  /\ pc' = "exit0"
  /\ UNCHANGED <<all, cost, caller, energy, hits, ignore, s, ret, root, fx,
                 energies, hotcells, memo, bracket, err>>
  /\ UNCHANGED startup

(***************************************************************************)
(* config::config(std::istream &), the reader of the configuration file of *)
(* the variant of the program that takes the number of hot cells per eta   *)
(* bin from a file.  A line is the sequence of its words; a word is known  *)
(* by what the conversions make of it.                                     *)
(***************************************************************************)
Word(kind, val) == [kind |-> kind, val |-> val]

\* The word "pvalue".
KeyWord == Word("pvalue", 0)

\* A decimal integer.
IntWord(n) == Word("int", n)

\* A decimal number with a fraction; val is its value on the scale of ProbOne.
RealWord(p) == Word("real", p)

\* The word "nan", which std::strtod converts to a NaN.
NanWord == Word("nan", 0)

\* A word that is neither "pvalue" nor the start of a number.
JunkWord == Word("junk", 0)

\* A word that starts with '#'.
CommentWord == Word("#", 0)

\* Lines 422-430: the words of a line up to the first comment.
RECURSIVE Words(_)
Words(line) ==
  IF line = <<>> \/ Head(line).kind = "#" THEN <<>>
  ELSE <<Head(line)>> \o Words(Tail(line))

\* config::strtod: the whole word must convert; the value is on the scale
\* of ProbOne.
StrToD(word) ==
  CASE word.kind = "int"  -> [ok |-> TRUE, val |-> word.val * ProbOne]
    [] word.kind = "real" -> [ok |-> TRUE, val |-> word.val]
    [] word.kind = "nan"  -> [ok |-> TRUE, val |-> NaN]
    [] OTHER              -> [ok |-> FALSE, val |-> 0]

\* config::strtol: the whole word must convert.
StrToL(word) ==
  IF word.kind = "int" THEN [ok |-> TRUE, val |-> word.val]
  ELSE [ok |-> FALSE, val |-> 0]

\* config::errmsg: the message starts with "line <linenb>: ".
ErrMsg(nb, descr) == [line |-> nb, descr |-> descr]

\* An exception whose message was not made by errmsg; line 0 stands for a
\* message without a line number.
PlainMsg(descr) == [line |-> 0, descr |-> descr]

\* _pvalue <= 0 || _pvalue > 1 on doubles: false when _pvalue is a NaN.
PvalueOutOfRange(v) == v # NaN /\ (v <= 0 \/ v > ProbOne)

\* Lines 416-466: what one turn of the loop does with the line: it goes on
\* with the config c or throws.
ReadLine(c, nb, line) ==
  LET words == Words(line)
      go(d) == [throw |-> <<>>, conf |-> d]
      throw(m) == [throw |-> <<m>>, conf |-> c]
  IN  IF words = <<>> THEN go(c)
      ELSE IF Len(words) # 2 THEN throw(ErrMsg(nb, "incomplete statement"))
      ELSE IF words[1].kind = "pvalue"
      THEN IF ~StrToD(words[2]).ok
           THEN throw(ErrMsg(nb, "cannot interpret as a number"))
           ELSE IF PvalueOutOfRange(StrToD(words[2]).val)
           THEN throw(PlainMsg("pvalue must be in (0, 1]"))
           ELSE go([c EXCEPT !.pvalue = StrToD(words[2]).val])
      ELSE IF ~StrToL(words[1]).ok
      THEN throw(ErrMsg(nb, "unknown parameter"))
      ELSE LET ieta == StrToL(words[1]).val + (ETA_DIVS \div 2)
           IN  IF ieta < 0 \/ ieta >= ETA_DIVS
               THEN throw(ErrMsg(nb, "ieta out of bounds"))
               ELSE IF ~StrToL(words[2]).ok
               THEN throw(ErrMsg(nb, "cannot interpret as a number"))
               ELSE IF StrToL(words[2]).val < 0
               THEN throw(PlainMsg("value must be positive"))
               ELSE go([c EXCEPT !.numhot[ieta] = StrToL(words[2]).val])

engine == <<all, cost, caller, energy, hits, ignore, s, ret, root, fx,
            energies, hotcells, memo, bracket, out, env, library>>

\* One turn of the loop of config::config over the lines of the file.
ConfigLine ==
  /\ pc = "config"
  /\ linenb <= Len(input)
  /\ LET r == ReadLine(conf, linenb, input[linenb])
     IN  IF r.throw = <<>>
         THEN /\ conf' = r.conf
              /\ linenb' = linenb + 1
              /\ UNCHANGED <<pc, err>>
         ELSE /\ pc' = "throw"
              /\ err' = r.throw
              /\ UNCHANGED <<conf, linenb>>
  /\ UNCHANGED engine
  /\ UNCHANGED input

\* The last turn: std::getline fails at the end of the file, the empty line
\* is skipped and the loop ends; main goes on with the config.
ConfigEnd ==
  /\ pc = "config"
  /\ linenb > Len(input)
  /\ pc' = "loaded"
  /\ UNCHANGED engine
  /\ UNCHANGED <<conf, err, input, linenb>>

\* main, lines 362-366: the exception is reported and the program exits.
ConfigReject ==
  /\ pc = "throw"
  /\ pc' = "exit1"
  /\ UNCHANGED engine
  /\ UNCHANGED <<conf, err, input, linenb>>

(***************************************************************************)
(* main of the variant with a configuration file (hbanalyzer.lua, lines    *)
(* 336-398): the arguments, the configuration file, the data file, the     *)
(* towerset, the results, the output.                                      *)
(***************************************************************************)
\* Lines 339-343.
MainArgs ==
  /\ pc = "main"
  /\ IF env.argc < 3
     THEN pc' = "exit1" /\ err' = <<PlainMsg("Not enough parameters")>>
     ELSE pc' = "open" /\ err' = err
  /\ UNCHANGED engine
  /\ UNCHANGED <<conf, input, linenb>>

\* Lines 346-355: the configuration file is opened.
OpenConfig ==
  /\ pc = "open"
  /\ IF env.config
     THEN pc' = "config" /\ err' = err
     ELSE pc' = "exit1" /\ err' = <<PlainMsg("cannot open")>>
  /\ UNCHANGED engine
  /\ UNCHANGED <<conf, input, linenb>>

\* Lines 368-374: the data file is opened.
OpenData ==
  /\ pc = "loaded"
  /\ IF env.data
     THEN pc' = "data" /\ err' = err
     ELSE pc' = "exit1" /\ err' = <<PlainMsg("could not open")>>
  /\ UNCHANGED engine
  /\ UNCHANGED <<conf, input, linenb>>

\* Lines 376-384 and results::results, lines 539-564: the towerset is made
\* and the hits are loaded, or the towerset constructor throws (no tree
\* "CaloTree", or a branch is missing) and main catches the exception and
\* prints its message.
MakeTowerset ==
  /\ pc = "data"
  /\ IF env.tree = "ok"
     THEN /\ \E prof \in [Bands -> 1 .. NumProfiles] :
               all' = SumBags([b \in Bands |-> Profile(b, prof[b])], Bands)
          /\ cost' = [ieta |-> -(ETA_DIVS \div 2), pvalue |-> conf.pvalue,
                      numhot |-> NumHot(conf, -(ETA_DIVS \div 2))]
          /\ pc' = "solve"
          /\ err' = err
     ELSE /\ err' = <<PlainMsg(IF env.tree = "notree"
                               THEN "No TTree named CaloTree"
                               ELSE "No branch")>>
          /\ pc' = "caught"
          /\ UNCHANGED <<all, cost>>
  /\ UNCHANGED <<caller, energy, hits, ignore, s, ret, root, fx,
                 energies, hotcells, memo, bracket, out>>
  /\ UNCHANGED startup

\* What the members of a results object hold when the pointer to it was
\* never set.
StrayEnergies == {0, 7}

\* Lines 386-397 after the catch: the pointer r was never set, and the loop
\* that prints the results uses it.  The program is killed, or it prints
\* whatever it finds and returns 0.
MainUnset ==
  /\ pc = "caught"
  /\ \/ pc' = "crash" /\ out' = out
     \/ /\ \E g \in StrayEnergies :
             out' = [k \in 1 .. (2 * (ETA_DIVS \div 2)) |->
                       [ieta     |-> k - 1 - (ETA_DIVS \div 2),
                        energy   |-> g,
                        hotcells |-> <<>>]]
        /\ pc' = "exit0"
  /\ UNCHANGED <<all, cost, caller, energy, hits, ignore, s, ret, root, fx,
                 energies, hotcells, memo, bracket, err>>
  /\ UNCHANGED startup

(***************************************************************************)
(* calo::towerset and towerset::iterator (calofilter.h).  The towerset     *)
(* holds the _size towers of one entry, at the indices 0 .. _size - 1; a   *)
(* filter is known by its answer for every tower of the entry.             *)
(***************************************************************************)
\* The most towers an entry holds in the model (the arrays hold 1000).
MaxTowers == 4

\* A tower: eta and phi as for the hits, the hadronic energy and the
\* number of HB cells used to build it.
Tower(eta, phi, e, hbcount) ==
  [eta |-> eta, phi |-> phi, hadenergy |-> e, hbcount |-> hbcount]

\* The entry that holds n towers.
Entry(n) ==
  [k \in 1 .. n |-> Tower(EtaOf(0), PhiMin + (k - 1) * PhiCellWidth, HitHigh, k % 2)]

\* towerset::_size
Size == Len(towers)

\* The filters on the towers of an entry of n towers.
Filters(n) == [0 .. (n - 1) -> BOOLEAN]

\* towerset::nofilter
NoFilter(n) == [k \in 0 .. (n - 1) |-> TRUE]

\* Variant: the loop stops at the first tower, good or not.
StepStill(i, f, n, read) ==
  [i |-> i, read |-> IF i < n THEN Append(read, i) ELSE read]

\* iterator::step_forward: the next good index, the current one included.
\* read lists the indices at which the filter was given the tower.
RECURSIVE step_forward(_, _, _, _)
step_forward(i, f, n, read) ==
  IF i < n /\ ~f[i]
  THEN step_forward(i + 1, f, n, Append(read, i))
  ELSE [i |-> i, read |-> IF i < n THEN Append(read, i) ELSE read]

\* towerset::end(): set(this, _size, &_nofilter)
End == [i |-> Size, filter |-> NoFilter(Size)]

\* iterator::operator== compares the tower references: the set and the index.
Equal(a, b) == a.i = b.i

\* How many times ++ and -- are applied to an iterator in the model.
MaxOps == 3

\* towerset::begin(&f): set(this, 0, f), for any filter f.
IterBegin ==
  /\ pc = "begin"
  /\ \E f \in Filters(Size) :
       LET r == step_forward(0, f, Size, log.read)
       IN  /\ it' = [i |-> r.i, filter |-> f]
           /\ log' = [log EXCEPT !.read = r.read]
  /\ pc' = "iterate"
  /\ UNCHANGED <<all, cost, caller, energy, hits, ignore, s, ret, root, fx,
                 energies, hotcells, memo, conf, bracket, out, err, input,
                 linenb, env, towers, goodhb, verdict>>

\* One turn of the loop "for (it = begin(&f); it != end; ++it)": the body
\* reads the tower, then operator++ moves on.
IterStep ==
  /\ pc = "iterate"
  /\ ~Equal(it, End)
  /\ LET r == step_forward(it.i + 1, it.filter, Size, Append(log.read, it.i))
     IN  /\ it' = [it EXCEPT !.i = r.i]
         /\ log' = [log EXCEPT !.visited = Append(@, it.i), !.read = r.read]
  /\ UNCHANGED <<all, cost, pc, caller, energy, hits, ignore, s, ret, root, fx,
                 energies, hotcells, memo, conf, bracket, out, err, input,
                 linenb, env, towers, goodhb, verdict>>

\* The loop ends: it == end.
IterDone ==
  /\ pc = "iterate"
  /\ Equal(it, End)
  /\ pc' = "counted"
  /\ UNCHANGED <<all, cost, caller, energy, hits, ignore, s, ret, root, fx,
                 energies, hotcells, memo, conf, bracket, out, err, input,
                 linenb, env, towers, it, log, goodhb, verdict>>

\* iterator::operator++ alone, on an iterator that is not the end.
IterInc ==
  /\ pc = "iterate"
  /\ it.i < Size
  /\ Len(log.trail) < MaxOps
  /\ LET r == step_forward(it.i + 1, it.filter, Size, log.read)
     IN  /\ it' = [it EXCEPT !.i = r.i]
         /\ log' = [log EXCEPT !.read = r.read,
                               !.trail = Append(@, [op |-> "++", from |-> it.i])]
  /\ UNCHANGED <<all, cost, pc, caller, energy, hits, ignore, s, ret, root, fx,
                 energies, hotcells, memo, conf, bracket, out, err, input,
                 linenb, env, towers, goodhb, verdict>>

\* iterator::operator--: _t = tower_ref(_set, --_i).  The constructor of
\* tower_ref asserts index >= 0: at index 0 the program is aborted, or,
\* built without assertions, goes on with the index -1.
IterDec ==
  /\ pc = "iterate"
  /\ it.i >= 0
  /\ Len(log.trail) < MaxOps
  /\ \/ /\ it.i = 0
        /\ pc' = "abort"
        /\ UNCHANGED <<it, log>>
     \/ /\ it' = [it EXCEPT !.i = @ - 1]
        /\ log' = [log EXCEPT !.trail = Append(@, [op |-> "--", from |-> it.i])]
        /\ pc' = pc
  /\ UNCHANGED <<all, cost, caller, energy, hits, ignore, s, ret, root, fx,
                 energies, hotcells, memo, conf, bracket, out, err, input,
                 linenb, env, towers, goodhb, verdict>>

(***************************************************************************)
(* calo::goodhb_filter (hb.cpp), built from the results of the analyzer as *)
(* the "cppcode" action of hbanalyzer.lua writes them: one threshold and   *)
(* one list of hot cells per eta bin, at the index ieta + ETA_DIVS / 2.    *)
(***************************************************************************)
\* 4 pi^2 in units of 0.001: phi in radians is the model's phi times
\* 2 pi / (PHI_DIVS * PhiCellWidth), and the filter multiplies it by
\* 2 pi / PHI_DIVS.
FourPiSquared == 39478

\* std::floor(tower.phi() * 2 * M_PI / PHI_DIVS)
FilterPhi(phi) == (phi * FourPiSquared) \div (1000 * PHI_DIVS * PHI_DIVS * PhiCellWidth)

\* std::floor(tower.eta() / 0.085) + ETA_DIVS / 2
FilterEta(eta) == EtaBin(eta) + (ETA_DIVS \div 2)

\* goodhb_filter::operator(): the answers it may give for the tower t.  For
\* a tower outside the eta bins the arrays are read out of bounds.
GoodHb(g, t) ==
  IF FilterEta(t.eta) \notin EtaIndex THEN BOOLEAN
  ELSE IF t.hadenergy < g.energies[FilterEta(t.eta)] THEN {FALSE}
  ELSE {\A k \in 1 .. Len(g.hotcells[FilterEta(t.eta)]) :
          g.hotcells[FilterEta(t.eta)][k] # FilterPhi(t.phi)}

\* The record printed for the eta bin of index i, if any.
Printed(i) == {k \in 1 .. Len(out) : out[k].ieta = i - (ETA_DIVS \div 2)}

\* hbanalyzer.lua, action "cppcode", and the constructor of goodhb_filter:
\* the printed thresholds and hot cells become the arrays of the filter; a
\* bin without a record gets the threshold 0 and no hot cell.
GoodHbBuild ==
  /\ pc = "exit0"
  /\ goodhb' = <<[energies |-> [i \in EtaIndex |->
                                 IF Printed(i) = {} THEN 0
                                 ELSE out[CHOOSE k \in Printed(i) : TRUE].energy],
                  hotcells |-> [i \in EtaIndex |->
                                 IF Printed(i) = {} THEN <<>>
                                 ELSE out[CHOOSE k \in Printed(i) : TRUE].hotcells]]>>
  /\ pc' = "filter"
  /\ UNCHANGED <<all, cost, caller, energy, hits, ignore, s, ret, root, fx,
                 energies, hotcells, memo, conf, bracket, out, err, input,
                 linenb, env, towers, it, log, verdict>>

\* The towers the filter is tried on: in every eta bin and one bin beyond,
\* on the edge and in the middle of every phi cell, with an energy around
\* the threshold of the bin or far above, made with HB cells or without.
TestTowers ==
  {Tower(EtaOf(b), PhiMin + (c - 1) * PhiCellWidth + d, e, n) :
     b \in Bands \cup {ETA_DIVS}, c \in Channels, d \in {0, 5},
     e \in {0, HitFar} \cup UNION {{energies[x] - 1, energies[x], energies[x] + 1} : x \in Bands},
     n \in {0, 1}}

\* The filter is given a tower.
GoodHbApply ==
  /\ pc = "filter"
  /\ \E t \in TestTowers, a \in BOOLEAN :
       /\ a \in GoodHb(goodhb[1], t)
       /\ verdict' = <<[tower |-> t, pass |-> a]>>
  /\ pc' = "answered"
  /\ UNCHANGED <<all, cost, caller, energy, hits, ignore, s, ret, root, fx,
                 energies, hotcells, memo, conf, bracket, out, err, input,
                 linenb, env, towers, it, log, goodhb>>

(***************************************************************************)
(* Specifications.                                                         *)
(***************************************************************************)
\* The pruning loop alone, called by the driver.
InitPrune ==
  \E noise \in [Channels -> {0, 1, 9}], signal \in {0, 1}, pvalue \in PValues :
    Loaded(HitsOf(noise, signal, <<9, 30>>), pvalue, 0, "idle")

NextPrune == TestCall \/ LoopPush \/ LoopExit \/ TestObserve

SpecPrune == InitPrune /\ [][NextPrune]_vars

\* The whole computation of the results.
Init ==
  \E noise \in [Channels -> {0, 9, 30}], signal \in {0, 1},
     pvalue \in PValues, numhot \in {0, 1} :
    Loaded(HitsOf(noise, signal, <<9, 30>>), pvalue, numhot, "solve")

Next ==
  \/ SolveTrial
  \/ LoopPush
  \/ LoopExit
  \/ CostReturn
  \/ SolveFail
  \/ SolveRoot
  \/ ResultsStore

Spec == Init /\ [][Next]_vars

\* The whole run of the program with the bracketing root finder.
NumhotValues == {0, 1, PHI_DIVS}

InitSolve ==
  \E prof \in [Bands -> 1 .. NumProfiles], pvalue \in PValues,
     numhot \in [EtaIndex -> NumhotValues] :
    LoadedWith(SumBags([b \in Bands |-> Profile(b, prof[b])], Bands),
               Config(pvalue, numhot), "solve")

NextSolve ==
  \/ BrentSet
  \/ LoopPush
  \/ LoopExit
  \/ BrentEval
  \/ BrentInvalid
  \/ BrentIterate
  \/ BrentGiveUp
  \/ BrentRoot
  \/ ResultsStore
  \/ PrintResults

SpecSolve == InitSolve /\ [][NextSolve]_vars

\* The reading of the configuration file.
MaxLines == 2

ConfigLines ==
  { <<>>,
    <<CommentWord, JunkWord>>,
    <<KeyWord, RealWord(500)>>,
    <<KeyWord, IntWord(1)>>,
    <<KeyWord, IntWord(0)>>,
    <<KeyWord, RealWord(15000)>>,
    <<KeyWord, NanWord>>,
    <<KeyWord, JunkWord>>,
    <<IntWord(-1), IntWord(1)>>,
    <<IntWord(0), IntWord(0), CommentWord>>,
    <<IntWord(0), IntWord(-1)>>,
    <<IntWord(ETA_DIVS), IntWord(1)>>,
    <<IntWord(0)>>,
    <<IntWord(0), IntWord(1), IntWord(2)>>,
    <<JunkWord, IntWord(1)>>,
    <<IntWord(0), JunkWord>>,
    <<IntWord(0), RealWord(5000)>> }

ConfigFiles ==
  UNION {[1 .. n -> ConfigLines] : n \in 0 .. MaxLines}

\* What the array _numhot, which the constructor does not initialise, may
\* hold before the file is read.
NumhotGarbage == {-1, 0, 3}

InitConfig ==
  \E file \in ConfigFiles, g \in NumhotGarbage :
    Started(EmptyBag, Config(100, [i \in EtaIndex |-> g]), "config", file)

NextConfig == ConfigLine \/ ConfigEnd \/ ConfigReject

SpecConfig == InitConfig /\ [][NextConfig]_vars

\* The whole run of the variant with a configuration file.
Envs ==
  [argc : {2, 3}, config : BOOLEAN, data : BOOLEAN,
   tree : {"ok", "notree", "nobranch"}]

InitStart ==
  \E file \in {f \in ConfigFiles : Len(f) <= 1}, g \in NumhotGarbage, e \in Envs :
    Entered(EmptyBag, Config(100, [i \in EtaIndex |-> g]), "main", file, e)

NextStart ==
  \/ MainArgs
  \/ OpenConfig
  \/ ConfigLine
  \/ ConfigEnd
  \/ ConfigReject
  \/ OpenData
  \/ MakeTowerset
  \/ MainUnset
  \/ BrentSet
  \/ LoopPush
  \/ LoopExit
  \/ BrentEval
  \/ BrentInvalid
  \/ BrentIterate
  \/ BrentGiveUp
  \/ BrentRoot
  \/ ResultsStore
  \/ PrintResults

SpecStart == InitStart /\ [][NextStart]_vars

\* The loop over the towers of an entry that pass a filter.
InitIter ==
  \E n \in 0 .. MaxTowers :
    Placed(EmptyBag, Config(100, [i \in EtaIndex |-> 0]), "begin", <<>>,
           FairEnv, Entry(n))

NextIter == IterBegin \/ IterStep \/ IterDone

SpecIter == InitIter /\ [][NextIter]_vars /\ WF_vars(NextIter)

\* An iterator moved forward and backward at will.
NextWalk == IterBegin \/ IterInc \/ IterDec

SpecWalk == InitIter /\ [][NextWalk]_vars

\* The analyzer, then the filter built from what it printed.
NextFilter == NextSolve \/ GoodHbBuild \/ GoodHbApply

SpecFilter == InitSolve /\ [][NextFilter]_vars

(***************************************************************************)
(* Reference definitions used to state the properties: the uniformity test *)
(* and the greedy pruning written as set expressions, independently of the *)
(* loops above.                                                            *)
(***************************************************************************)
Range(xs) == {xs[k] : k \in 1 .. Len(xs)}

RECURSIVE SumOver(_, _, _)
SumOver(h, S, square) ==
  IF S = {} THEN 0
  ELSE LET i == CHOOSE j \in S : TRUE
       IN  (IF square THEN h[i] * h[i] ELSE h[i]) + SumOver(h, S \ {i}, square)

\* The cells that count: not excluded, positive content.
RefGood(h, X) == {i \in Channels : i \notin X /\ h[i] > 0}

\* The p-value of the test with the cells of X, k of them, excluded.
RefPValue(h, X, k) ==
  LET sum   == SumOver(h, RefGood(h, X), FALSE)
      sumsq == SumOver(h, RefGood(h, X), TRUE)
      n     == PHI_DIVS - k
  IN  Prob(n * sumsq - sum * sum, sum, sum = 0, n - 1)

\* The test passes: the p-value is a number and reaches the target.
RefPasses(h, X, k, target) ==
  RefPValue(h, X, k) # NaN /\ RefPValue(h, X, k) >= target

\* The most occupied cell: largest content, then lowest index.
RefArgMax(h, X) ==
  CHOOSE i \in RefGood(h, X) :
    \A j \in RefGood(h, X) : h[j] < h[i] \/ (h[j] = h[i] /\ i <= j)

RECURSIVE RefPrune(_, _, _)
RefPrune(h, xs, target) ==
  IF /\ Less(RefPValue(h, Range(xs), Len(xs)), target)
     /\ RefGood(h, Range(xs)) # {}
  THEN RefPrune(h, Append(xs, RefArgMax(h, Range(xs))), target)
  ELSE xs

\* The histogram of the call of getignored in progress or just returned.
CurHist == make_histogram(all, cost.ieta, energy)

(***************************************************************************)
(* C1: whenever getignored returns a list, the uniformity test on the      *)
(* band's histogram with that list excluded has a p-value that reaches the *)
(* target.                                                                 *)
(***************************************************************************)
C1_ReturnedSetPasses ==
  pc = "ret" => RefPasses(CurHist, Range(ret), Len(ret), cost.pvalue)

(***************************************************************************)
(* C2: the pruning loop stops after at most PHI_DIVS - 2 appends: the      *)
(* ignore list never holds more than PHI_DIVS - 2 cells.                   *)
(***************************************************************************)
C2_AtMostNMinus2Appends ==
  Len(ignore) <= PHI_DIVS - 2

(***************************************************************************)
(* C3: every list getignored returns, and the hot cell list of every band  *)
(* stored in the results, holds between 0 and PHI_DIVS - 2 cells, and the  *)
(* last test evaluated before returning had at least one degree of         *)
(* freedom.                                                                *)
(***************************************************************************)
C3_ExclusionBound ==
  /\ pc = "ret" => Len(ret) <= PHI_DIVS - 2
  /\ (pc = "loop" /\ ~Less(s.pvalue, cost.pvalue)) => PHI_DIVS - Len(ignore) - 1 >= 1
  /\ \A b \in Bands : Len(hotcells[b]) <= PHI_DIVS - 2

C3_Witness ==
  /\ pc = "ret"
  /\ caller = "results"
  /\ Len(ret) = PHI_DIVS - 2

(***************************************************************************)
(* C4: when the test fails with only two cells left, so that pruning would *)
(* need more than PHI_DIVS - 2 exclusions, no further cell is appended and *)
(* the loop is left through an error, and no test is evaluated for fewer   *)
(* than two cells.                                                         *)
(***************************************************************************)
C4_DegenerateSignalled ==
  [][(pc = "loop" /\ Len(ignore) >= PHI_DIVS - 2 /\ Less(s.pvalue, cost.pvalue))
       => (ignore' = ignore /\ pc' \notin {"loop", "ret"})]_vars

(***************************************************************************)
(* C5 as stated: no set of cells with fewer elements than the returned     *)
(* list makes the test pass.                                               *)
(***************************************************************************)
C5_MinimalSize ==
  pc = "ret" =>
    \A X \in SUBSET Channels :
      Cardinality(X) < Len(ret) =>
        ~RefPasses(CurHist, X, Cardinality(X), cost.pvalue)

(***************************************************************************)
(* C5 as amended: the returned list is the shortest prefix of the greedy   *)
(* order that stops the test from failing: with any shorter prefix of the  *)
(* returned list excluded, the p-value is below the target.                *)
(***************************************************************************)
C5_ShortestGreedyPrefix ==
  pc = "ret" =>
    \A k \in 0 .. (Len(ret) - 1) :
      Less(RefPValue(CurHist, Range(SubSeq(ret, 1, k)), k), cost.pvalue)

C5_Witness ==
  /\ pc = "ret"
  /\ Len(ret) = 2
  /\ \E X \in SUBSET Channels :
       Cardinality(X) = 1 /\ RefPasses(CurHist, X, 1, cost.pvalue)

(***************************************************************************)
(* C6: two calls of getignored with the same band and energy return the    *)
(* same list, whatever was called in between.                              *)
(***************************************************************************)
C6_Deterministic ==
  (pc = "ret" /\ memo # <<>>) =>
    ((memo[1].ieta = cost.ieta /\ memo[1].energy = energy) => ret = memo[1].ret)

C6_Witness ==
  /\ pc = "ret"
  /\ memo # <<>>
  /\ memo[1].ieta = cost.ieta
  /\ memo[1].energy = energy
  /\ Len(ret) >= 2
  /\ CurHist[ret[1]] = CurHist[ret[2]]

(***************************************************************************)
(* C7: after a test that saw at least one cell with positive content, the  *)
(* reported maxphi is a non-excluded cell of largest content, and the      *)
(* lowest such cell.                                                       *)
(***************************************************************************)
C7_MostOccupied ==
  (pc = "loop" /\ RefGood(hits, Range(ignore)) # {}) =>
    /\ s.maxphi \in RefGood(hits, Range(ignore))
    /\ \A j \in RefGood(hits, Range(ignore)) :
         \/ hits[j] < hits[s.maxphi]
         \/ (hits[j] = hits[s.maxphi] /\ s.maxphi <= j)

C7_Witness ==
  /\ pc = "loop"
  /\ Len(ignore) >= 1
  /\ \E i, j \in RefGood(hits, Range(ignore)) :
       i < j /\ hits[i] = hits[j] /\ s.maxphi = i /\ i > 1

(***************************************************************************)
(* C8: the histogram holds, per cell, the number of collected hits of the  *)
(* band that fall in the cell and whose energy is strictly greater than    *)
(* the cutoff, and no step changes the collected hits.                     *)
(***************************************************************************)
RefCount(band, i, cutoff) ==
  BagCardinality([h \in {x \in BagToSet(all) :
                           /\ x.eta >= band * EtaBinWidth
                           /\ x.eta < (band + 1) * EtaBinWidth
                           /\ x.phi >= PhiMin + (i - 1) * PhiCellWidth
                           /\ x.phi < PhiMin + i * PhiCellWidth
                           /\ ~(x.hadenergy <= cutoff)} |-> all[h]])

C8_HistogramCounts ==
  [][/\ all' = all
     /\ pc' = "loop" => \A i \in Channels : hits'[i] = RefCount(cost.ieta, i, energy)']_vars

C8_Witness ==
  /\ pc = "loop"
  /\ \E x \in BagToSet(all) :
       /\ x.hadenergy = energy
       /\ EtaBin(x.eta) = cost.ieta
       /\ hits[FindBin(x.phi)] = 1
  /\ \E x \in BagToSet(all) : EtaBin(x.eta) # cost.ieta /\ x.hadenergy > energy

(***************************************************************************)
(* C9: the list results::results receives for a band is the one the greedy *)
(* pruning gives at the rounded threshold of the band, and the hot cells   *)
(* stored for a band are that list shifted by -PHI_DIVS / 2 cell by cell,  *)
(* in the same order.                                                      *)
(***************************************************************************)
RefIgnored(band, threshold) ==
  RefPrune(make_histogram(all, band, threshold), <<>>, cost.pvalue)

RefHotCells(band, threshold) ==
  LET xs == RefIgnored(band, threshold)
  IN  [k \in 1 .. Len(xs) |-> xs[k] - (PHI_DIVS \div 2)]

C9_HotCellsAtThreshold ==
  /\ \A b \in Bands :
       b < cost.ieta => hotcells[b] = RefHotCells(b, energies[b])
  /\ (pc = "ret" /\ caller = "results") =>
       /\ energy = CeilDiv(root + Epsilon, Step) * Step
       /\ ret = RefIgnored(cost.ieta, energy)

\* A band is stored with two hot cells, the higher index first, and for the
\* next band the list at the rounded threshold differs from the list at the
\* root itself.
C9_Witness ==
  /\ pc = "ret"
  /\ caller = "results"
  /\ ret # RefIgnored(cost.ieta, root)
  /\ \E b \in Bands :
       /\ b < cost.ieta
       /\ Len(hotcells[b]) >= 2
       /\ hotcells[b][1] > hotcells[b][2]

(***************************************************************************)
(* C10: the threshold is a multiple of 0.01, strictly greater than the     *)
(* root, at most root + epsilon + 0.01, and the least such multiple that   *)
(* is not below root + epsilon.                                            *)
(***************************************************************************)
C10_RoundedThreshold ==
  (caller = "results" /\ pc \in {"loop", "ret"}) =>
    /\ energy % Step = 0
    /\ energy > root
    /\ energy <= root + Epsilon + Step
    /\ energy >= root + Epsilon
    /\ energy - Step < root + Epsilon

C10_Witness ==
  /\ caller = "results"
  /\ pc = "ret"
  /\ root % Step = Step - Epsilon
  /\ energy = root + Epsilon

(***************************************************************************)
(* Reference definitions for the threshold search: the number of cells the *)
(* greedy pruning excludes at an energy, as a function of the energy.      *)
(***************************************************************************)
\* The pruning of the band at energy e returns: its last test does not fail.
RefReturns(band, e) ==
  LET h  == make_histogram(all, band, e)
      xs == RefPrune(h, <<>>, cost.pvalue)
  IN  ~Less(RefPValue(h, Range(xs), Len(xs)), cost.pvalue)

ExcludedCount(band, e) == Len(RefIgnored(band, e))

\* The pruning returns at every energy of the searched interval and the
\* number of excluded cells does not increase with the energy over it.
Monotone(band) ==
  /\ \A e \in EMIN .. EMAX : RefReturns(band, e)
  /\ \A e \in EMIN .. (EMAX - 1) :
       ExcludedCount(band, e) >= ExcludedCount(band, e + 1)

\* The band for which results::results has just received the hot cells.
Accepted == pc = "ret" /\ caller = "results"

(***************************************************************************)
(* C11: the threshold of every band whose results are stored or printed    *)
(* lies in the searched interval [EMIN, EMAX].                             *)
(***************************************************************************)
C11_ThresholdWithinBounds ==
  /\ Accepted => energy \in EMIN .. EMAX
  /\ \A b \in Bands : b < cost.ieta => energies[b] \in EMIN .. EMAX
  /\ \A k \in 1 .. Len(out) : out[k].energy \in EMIN .. EMAX

(***************************************************************************)
(* C12: when the number of excluded cells does not increase with the       *)
(* energy over [EMIN, EMAX] and the root finder succeeds, every energy of  *)
(* the interval at which more than numhot cells are excluded lies below    *)
(* the threshold, and the hot cells found at the threshold are at most     *)
(* numhot.                                                                 *)
(***************************************************************************)
C12_SafeThreshold ==
  (Accepted /\ Monotone(cost.ieta)) =>
    /\ \A e \in EMIN .. EMAX :
         ExcludedCount(cost.ieta, e) > cost.numhot => e < energy
    /\ Len(ret) <= cost.numhot

SolveFailed ==
  /\ pc = "solve"
  /\ Len(bracket.pts) = 2
  /\ \/ (bracket.pts[1].f < 0 /\ bracket.pts[2].f < 0)
     \/ (bracket.pts[1].f > 0 /\ bracket.pts[2].f > 0)
     \/ /\ bracket.pts[1].f # 0
        /\ bracket.pts[2].f # 0
        /\ bracket.pts[2].x - bracket.pts[1].x > Tolerance
        /\ bracket.iter >= MaxIter

C14_FailFast ==
  [][/\ cost'.ieta \in {cost.ieta, cost.ieta + 1}
     /\ SolveFailed => (pc' = "exit2" /\ err' = <<[ieta |-> cost.ieta]>>)
     /\ pc' = "exit2" => (SolveFailed /\ out' = <<>> /\ energies' = energies)
     /\ pc # "exit2"]_vars

\* The second band fails after the first was solved and its hot cells stored.
C14_Witness ==
  /\ pc = "exit2"
  /\ cost.ieta > -(ETA_DIVS \div 2)
  /\ err = <<[ieta |-> cost.ieta]>>
  /\ hotcells[cost.ieta - 1] # <<>>
  /\ out = <<>>

(***************************************************************************)
(* C15: for a band whose numhot exceeds PHI_DIVS - 1 no results are ever   *)
(* stored or printed, and while that band is solved the pruning loop never *)
(* gets to the point where fewer than two cells are left, from which it    *)
(* cannot return (with no degree of freedom the p-value is 0 at every      *)
(* turn).                                                                  *)
(***************************************************************************)
C15_ExcessTargetFails ==
  /\ \A b \in Bands :
       NumHot(conf, b) > PHI_DIVS - 1 => (cost.ieta <= b /\ out = <<>>)
  /\ (pc = "loop" /\ cost.numhot > PHI_DIVS - 1) => PHI_DIVS - Len(ignore) >= 2

(***************************************************************************)
(* C17: for a band with equal, positive or zero, counts in every cell at   *)
(* every cutoff, with numhot = 0 and p-value 0.01, the root finder does    *)
(* not fail, the stored hot cell list is empty and the stored threshold is *)
(* at most one step plus epsilon above EMIN.                               *)
(***************************************************************************)
Uniform(band) ==
  \A e \in EMIN .. HitFar :
    \A i \in Channels : RefCount(band, i, e) = RefCount(band, 1, e)

ZeroTarget(band) ==
  /\ conf.pvalue = 100
  /\ NumHot(conf, band) = 0
  /\ Uniform(band)

C17_ZeroTarget ==
  /\ pc = "exit2" => ~ZeroTarget(cost.ieta)
  /\ \A b \in Bands :
       (b < cost.ieta /\ ZeroTarget(b)) =>
         /\ hotcells[b] = <<>>
         /\ energies[b] >= EMIN
         /\ energies[b] <= EMIN + Step + Epsilon

C17_Witness ==
  /\ pc = "exit0"
  /\ \E b \in Bands :
       /\ ZeroTarget(b)
       /\ RefCount(b, 1, EMIN) > 0
       /\ out[b + (ETA_DIVS \div 2) + 1].hotcells = <<>>
       /\ out[b + (ETA_DIVS \div 2) + 1].energy = Step

(***************************************************************************)
(* C16: the test is never evaluated on a histogram in which no hit is left *)
(* in the cells that are not ignored: no statistics are computed for it    *)
(* and getignored does not return a list for it.                           *)
(***************************************************************************)
C16_MeanZeroSignalled ==
  /\ pc = "loop" => RefGood(hits, Range(ignore)) # {}
  /\ pc = "ret" => RefGood(CurHist, Range(ret)) # {}

(***************************************************************************)
(* C18: when all cells but cell k hold the same positive number of hits    *)
(* and cell k holds so many more that the Pearson statistic of the         *)
(* histogram, (n - 1)(M - m)^2 / ((n - 1) m + M), exceeds the critical     *)
(* value, the first test fails and names k, the test with k alone ignored  *)
(* passes, and getignored returns <<k>>.                                   *)
(***************************************************************************)
SingleOutlier(h, k) ==
  LET o == CHOOSE i \in Channels : i # k
      m == h[o]
      M == h[k]
  IN  /\ \A i \in Channels \ {k} : h[i] = m
      /\ m > 0
      /\ M > m
      /\ 1000 * (PHI_DIVS - 1) * (M - m) * (M - m)
           > Quantile(cost.pvalue, PHI_DIVS - 1) * ((PHI_DIVS - 1) * m + M)

WellFormed(line) ==
  LET w == Words(line)
  IN  \/ w = <<>>
      \/ /\ Len(w) = 2
         /\ w[1].kind = "pvalue"
         /\ \/ w[2].kind = "int" /\ w[2].val = 1
            \/ w[2].kind = "real" /\ w[2].val > 0 /\ w[2].val <= ProbOne
      \/ /\ Len(w) = 2
         /\ w[1].kind = "int"
         /\ w[1].val \in Bands
         /\ w[2].kind = "int"
         /\ w[2].val >= 0

C19_ErrorsCarryLine ==
  /\ pc \in {"throw", "exit1"} => err[1].line = linenb
  /\ \A n \in 1 .. Len(input) :
       (n < linenb \/ pc = "loaded") => WellFormed(input[n])

(***************************************************************************)
(* C20: once the configuration is read without error, the p-value lies in  *)
(* (0, 1] and the number of hot cells of every band is a non-negative      *)
(* integer.                                                                *)
(***************************************************************************)
C20_ConfigWellFormed ==
  pc = "loaded" =>
    /\ conf.pvalue > 0
    /\ conf.pvalue <= ProbOne
    /\ \A b \in Bands : NumHot(conf, b) >= 0

(***************************************************************************)
(* C21: once an error of the start (arguments, configuration file, data    *)
(* file, tree or branches) is reported, the program is on its way to the   *)
(* exit with code 1: it never runs the solver, prints no result and ends   *)
(* nowhere else.                                                           *)
(***************************************************************************)
StartupError == err # <<>> /\ "descr" \in DOMAIN err[1]

C21_StartupErrorsFatal ==
  StartupError =>
    /\ pc \in {"throw", "caught", "exit1"}
    /\ out = <<>>
    /\ bracket = NoBracket
    /\ fx = <<>>

(***************************************************************************)
(* C22: the results of a band depend on the hits of that band, the target  *)
(* p-value and the band's own numhot only.  With the hits of the other     *)
(* bands taken away or replaced by any other input, the histogram of every *)
(* call of getignored for the band, every value of the cost function the   *)
(* root finder holds for it, the list returned at the band's threshold and *)
(* the hot cells stored for the band are the same; the cost function uses  *)
(* the band's own numhot; the root finder starts every band from the same  *)
(* state; what is printed for a band is what was stored for it.            *)
(***************************************************************************)
\* The hits of B that lie in the band.
BandHits(B, band) ==
  [x \in {y \in BagToSet(B) : /\ y.eta >= band * EtaBinWidth
                              /\ y.eta < (band + 1) * EtaBinWidth} |-> B[x]]

\* The hits of the band alone, and with each other input in the other bands.
Elsewhere(band) ==
  {BandHits(all, band)}
  \cup {SumBags([c \in Bands |-> IF c = band THEN BandHits(all, band)
                                 ELSE Profile(c, p)], Bands) :
          p \in 1 .. NumProfiles}

BandIgnored(B, band, e) == RefPrune(make_histogram(B, band, e), <<>>, conf.pvalue)

BandCost(B, band, e) ==
  LET n == Len(BandIgnored(B, band, e))
  IN  1000 * (n - NumHot(conf, band)) + (IF n > NumHot(conf, band) THEN e ELSE -e)

C22_BandsIndependent ==
  /\ cost.ieta \in Bands =>
       /\ cost.pvalue = conf.pvalue
       /\ cost.numhot = NumHot(conf, cost.ieta)
  /\ (pc = "solve" /\ bracket.pts = <<>>) =>
       /\ bracket = NoBracket
       /\ fx = <<>>
       /\ root = 0
  /\ pc = "loop" =>
       \A B \in Elsewhere(cost.ieta) :
         hits = make_histogram(B, cost.ieta, energy)
  /\ (pc = "solve" /\ bracket.pts # <<>>) =>
       \A B \in Elsewhere(cost.ieta) :
         \A k \in 1 .. Len(bracket.pts) :
           bracket.pts[k].f = BandCost(B, cost.ieta, bracket.pts[k].x)
  /\ Accepted =>
       \A B \in Elsewhere(cost.ieta) : ret = BandIgnored(B, cost.ieta, energy)
  /\ (pc \in {"solve", "done"} /\ bracket.pts = <<>>) =>
       \A b \in Bands :
         b < cost.ieta =>
           \A B \in Elsewhere(b) :
             hotcells[b] = Shift(BandIgnored(B, b, energies[b]))
  /\ \A k \in 1 .. Len(out) :
       /\ out[k].energy = energies[out[k].ieta]
       /\ out[k].hotcells = hotcells[out[k].ieta]

\* A complete run in which two bands hold different hits and have different
\* numhot, and get different thresholds and different hot cells.
C22_Witness ==
  /\ pc = "exit0"
  /\ \E b, c \in Bands :
       /\ NumHot(conf, b) # NumHot(conf, c)
       /\ make_histogram(all, b, EMIN) # make_histogram(all, c, EMIN)
       /\ out[b + (ETA_DIVS \div 2) + 1].hotcells # <<>>
       /\ out[c + (ETA_DIVS \div 2) + 1].hotcells = <<>>
       /\ out[b + (ETA_DIVS \div 2) + 1].energy # out[c + (ETA_DIVS \div 2) + 1].energy

(***************************************************************************)
(* C23: the loop from begin(&f) with ++ until the iterator equals end()    *)
(* ends, and it hands to its body exactly the towers that pass the filter, *)
(* each once, in increasing order of index; the number of its turns is the *)
(* number of passing towers; the filter is never given a tower, and no     *)
(* tower is read, at an index outside 0 .. _size - 1.                      *)
(***************************************************************************)
Passing == {i \in 0 .. (Size - 1) : it.filter[i]}

C24_Bidirectional ==
  /\ \A k \in 1 .. Len(log.trail) :
       ( /\ k = Len(log.trail)
         /\ log.trail[k].op = "--"
         /\ \E j \in Passing : j < log.trail[k].from ) =>
         it.i \in Passing
  /\ \A k \in 2 .. Len(log.trail) :
       ( /\ k = Len(log.trail)
         /\ log.trail[k].op = "--"
         /\ log.trail[k - 1].op = "++"
         /\ log.trail[k - 1].from \in Passing
         /\ \E j \in Passing : j > log.trail[k - 1].from ) =>
         it.i = log.trail[k - 1].from

(***************************************************************************)
(* C25: every tower the goodhb_filter accepts is an HB tower of one of the *)
(* eta bins, its hadronic energy is not below the threshold of its bin,    *)
(* and its phi cell, floor(phi / cell width), is not in the list of hot    *)
(* cells of its bin.                                                       *)
(***************************************************************************)
LogicalPhi(phi) == phi \div PhiCellWidth

C25_GoodTowersOnly ==
  \A k \in 1 .. Len(verdict) :
    verdict[k].pass =>
      /\ verdict[k].tower.hbcount > 0
      /\ EtaBin(verdict[k].tower.eta) \in Bands
      /\ verdict[k].tower.hadenergy
           >= goodhb[1].energies[EtaBin(verdict[k].tower.eta) + (ETA_DIVS \div 2)]
      /\ \A j \in 1 .. Len(goodhb[1].hotcells[EtaBin(verdict[k].tower.eta) + (ETA_DIVS \div 2)]) :
           goodhb[1].hotcells[EtaBin(verdict[k].tower.eta) + (ETA_DIVS \div 2)][j]
             # LogicalPhi(verdict[k].tower.phi)

(***************************************************************************)
(* C26: the filter built from the results of the analyzer rejects every HB *)
(* tower of a band whose phi lies in a histogram cell the analyzer         *)
(* excluded for the band (cell i is reported as i - PHI_DIVS / 2), and     *)
(* accepts the HB towers of the band above its threshold in the cells the  *)
(* analyzer did not exclude.                                               *)
(***************************************************************************)
Reported(band, phi) ==
  \E j \in 1 .. Len(hotcells[band]) :
    hotcells[band][j] = FindBin(phi) - (PHI_DIVS \div 2)

C26_SameChannels ==
  \A k \in 1 .. Len(verdict) :
    (verdict[k].tower.hbcount > 0 /\ EtaBin(verdict[k].tower.eta) \in Bands) =>
      /\ Reported(EtaBin(verdict[k].tower.eta), verdict[k].tower.phi)
           => ~verdict[k].pass
      /\ ( /\ ~Reported(EtaBin(verdict[k].tower.eta), verdict[k].tower.phi)
           /\ verdict[k].tower.hadenergy > energies[EtaBin(verdict[k].tower.eta)] )
           => verdict[k].pass

(***************************************************************************)
(* C27: at every energy E of the searched interval at which the cost       *)
(* function was evaluated, its value is excludedCount(E) - numhot + E when *)
(* excludedCount(E) > numhot and excludedCount(E) - numhot - E otherwise;  *)
(* it is positive exactly when excludedCount(E) > numhot, and zero only at *)
(* E = 0 with excludedCount(0) = numhot; two evaluated energies at which   *)
(* the cost is positive and not positive have excludedCount above numhot   *)
(* and at most numhot.                                                     *)
(***************************************************************************)
C27_CostSign ==
  /\ fx # <<>> =>
       LET E == fx[1].energy
           n == ExcludedCount(cost.ieta, E)
           c == fx[1].value
       IN  /\ E \in EMIN .. EMAX
           /\ fx[1].ignored = n
           /\ c = 1000 * (n - cost.numhot) + (IF n > cost.numhot THEN E ELSE -E)
           /\ (c > 0) <=> (n > cost.numhot)
           /\ (c = 0) => (E = 0 /\ n = cost.numhot)
  /\ (pc = "solve" /\ Len(bracket.pts) = 2) =>
       \A i, j \in 1 .. 2 :
         (bracket.pts[i].f <= 0 /\ bracket.pts[j].f > 0) =>
           /\ ExcludedCount(cost.ieta, bracket.pts[i].x) <= cost.numhot
           /\ ExcludedCount(cost.ieta, bracket.pts[j].x) > cost.numhot

\* An iteration evaluated the cost at a positive energy where exactly
\* numhot cells are excluded, and it is -E there; the bracket has a
\* positive and a negative end.
C27_Witness ==
  /\ pc = "solve"
  /\ fx # <<>>
  /\ fx[1].energy > 0
  /\ fx[1].ignored = cost.numhot
  /\ fx[1].value = -fx[1].energy
  /\ Len(bracket.pts) = 2
  /\ bracket.pts[1].f > 0
  /\ bracket.pts[2].f < 0
  /\ bracket.iter > 0

(***************************************************************************)
(* C28: whenever the test is computed on a histogram with a positive sum   *)
(* over the cells that are not excluded, the statistic sumsq / mean -      *)
(* numgood * mean, with the sums taken over the non-excluded cells of      *)
(* positive content and numgood = PHI_DIVS - |excluded|, is the Pearson    *)
(* statistic: the sum over all non-excluded cells, the empty ones too, of  *)
(* (content - mean)^2 / mean; and chi2 * sum = numgood * sumsq - sum^2.    *)
(***************************************************************************)
\* The sum over the cells of S of (content - sum / n)^2, times n^2.
RECURSIVE RefDeviations(_, _, _, _)
RefDeviations(h, S, sum, n) ==
  IF S = {} THEN 0
  ELSE LET i == CHOOSE j \in S : TRUE
       IN  (n * h[i] - sum) * (n * h[i] - sum) + RefDeviations(h, S \ {i}, sum, n)

\* The Pearson statistic over the cells of S with expected content sum / n:
\* each term is (n h - sum)^2 / n^2 divided by sum / n.
RefPearson(h, S, sum, n) == Ratio(RefDeviations(h, S, sum, n), n * sum)

\* Equality of two fractions with positive denominators.
SameRatio(a, b) == a.den > 0 /\ b.den > 0 /\ a.num * b.den = b.num * a.den

C28_ChiSquareIsPearson ==
  pc = "loop" =>
    LET acc     == Scan(hits, ignore, 1, [max |-> 0, sum |-> 0, sumsq |-> 0, maxphi |-> 0])
        numgood == NumGood(ignore)
        chi2    == Chi2(acc.sumsq, Mean(acc.sum, numgood), numgood)
        kept    == Channels \ Range(ignore)
    IN  /\ acc.sum = SumOver(hits, RefGood(hits, Range(ignore)), FALSE)
        /\ acc.sumsq = SumOver(hits, RefGood(hits, Range(ignore)), TRUE)
        /\ acc.sum > 0 =>
             /\ SameRatio(chi2, RefPearson(hits, kept, acc.sum, numgood))
             /\ chi2.num * acc.sum
                  = (numgood * acc.sumsq - acc.sum * acc.sum) * chi2.den
             /\ numgood > 1 => s.pvalue = Prob(chi2.num, chi2.den, FALSE, numgood - 1)

\* The test is computed with a cell excluded, an empty cell and two cells
\* of different positive content among the others; the statistic is not
\* zero.
C28_Witness ==
  /\ pc = "loop"
  /\ Len(ignore) = 1
  /\ \E i, j, k \in Channels \ Range(ignore) :
       /\ hits[i] = 0
       /\ hits[j] > 0
       /\ hits[k] > hits[j]
  /\ LET acc == Scan(hits, ignore, 1, [max |-> 0, sum |-> 0, sumsq |-> 0, maxphi |-> 0])
     IN  Chi2(acc.sumsq, Mean(acc.sum, NumGood(ignore)), NumGood(ignore)).num > 0

(***************************************************************************)
(* C29: at every turn of the pruning loop the ignore list is the first     *)
(* cells of the band's histogram in the order of decreasing content and,   *)
(* among equal contents, increasing index; so no ignored cell holds less   *)
(* than a cell that is not ignored, and the list returned in the end       *)
(* starts with the same order.                                             *)
(***************************************************************************)
\* The cells of S by decreasing content, then increasing index.
RECURSIVE RefOrder(_, _)
RefOrder(h, S) ==
  IF S = {} THEN <<>>
  ELSE LET i == CHOOSE c \in S :
                  \A j \in S : h[j] < h[c] \/ (h[j] = h[c] /\ c <= j)
       IN  <<i>> \o RefOrder(h, S \ {i})

\* xs is the beginning of the order of the cells of h.
RefLeading(h, xs) ==
  /\ Len(xs) <= PHI_DIVS
  /\ xs = SubSeq(RefOrder(h, Channels), 1, Len(xs))
  /\ \A i \in Range(xs), j \in Channels \ Range(xs) : h[i] >= h[j]

C29_SortedPrefix ==
  /\ pc = "loop" => RefLeading(hits, ignore)
  /\ pc = "ret" => RefLeading(CurHist, ret)

(***************************************************************************)
(* C30: in every state of the pruning loop the ignore list holds no cell   *)
(* twice, and every entry is a cell of the histogram, between 1 and        *)
(* PHI_DIVS, with a positive content: the cell the last test found as the  *)
(* most occupied one among those not yet ignored.                          *)
(***************************************************************************)
C30_DistinctValidCells ==
  pc = "loop" =>
    /\ \A k, m \in 1 .. Len(ignore) : k # m => ignore[k] # ignore[m]
    /\ \A k \in 1 .. Len(ignore) :
         /\ ignore[k] \in Channels
         /\ hits[ignore[k]] > 0
         /\ RefGood(hits, Range(SubSeq(ignore, 1, k - 1))) # {}
         /\ ignore[k] = RefArgMax(hits, Range(SubSeq(ignore, 1, k - 1)))

====
